---- MODULE Spec2Model ----
(***************************************************************************)
(* Model of CTxnPropagator (src/src/txn_propagator.cpp): the queue of new  *)
(* transactions, the background thread that hands the queue to every peer, *)
(* removeTransactions, the run frequency, and shutdown.  Every thread is a *)
(* small program counter machine; the two mutexes are modelled by their    *)
(* sets of holders.                                                        *)
(***************************************************************************)
EXTENDS Integers, Sequences, FiniteSets, TLC

\* ---------------------------------------------------------------- bounds
NumCallers == 2        \* concurrent caller threads
MaxTxn     == 2        \* distinct transaction identities
NumPeers   == 2        \* peers known to the connection manager
MaxCalls   == 3        \* API calls started in one behaviour
MaxKey     == 1        \* largest pool-assigned ordering key
MaxRemove  == 2        \* longest removal list
MaxFreq    == 2        \* distinct run frequencies a caller may set

\* The background thread std::thread mNewTxnsThread; callers are 1..NumCallers
Sched   == 0
Callers == 1..NumCallers
Txns    == 1..MaxTxn
Peers   == 1..NumPeers
Freqs   == 1..MaxFreq

VARIABLES
    mRunning,       \* std::atomic<bool> mRunning
    mNewTxns,       \* std::vector<CTxnSendingDetails> mNewTxns (identities)
    mNewTxnsMtx,    \* holders of std::mutex mNewTxnsMtx
    mempoolCs,      \* holders of mempool.cs
    poolKey,        \* the pool's current ordering key of every transaction
    pc,             \* position of every thread
    txn,            \* argument of newTransaction, per caller (0: none)
    tmp,            \* the vector as read by push_back, per caller
    txnDetails,     \* local txnDetails of removeTransactions, per caller
    ret,            \* value returned by getNewTxnQueueLength, per caller
    connected,      \* peers currently connected
    inv,            \* per-peer pending inventory
    tasks,          \* peers whose task of the running fan-out is outstanding
    mRunFrequency,  \* std::chrono::milliseconds mRunFrequency
    freq,           \* argument of setRunFrequency, per caller (0: none)
    waitBound,      \* the duration given to the wait_for in progress (0: none)
    cvSignalled,    \* a notify_one has reached the thread blocked in wait_for
    \* history variables
    calls,          \* API calls started so far
    dtorCalled,     \* the destructor has been entered
    shutdownReturned, \* some shutdown() call has returned
    stops,          \* counts of flag changes, signals and joins by shutdown()
    failed,         \* a dispatch cycle has thrown
    nSubmitted,     \* newTransaction calls completed before the first drain
    drained,        \* a dispatch cycle or a removeTransactions has begun
    snapshot,       \* peers enumerated by the running dispatch cycle
    handedTo,       \* per peer: batches handed to it whose descriptors are pending
    cleanRetracted, \* identities pending once, then retracted, not submitted since
    clean,          \* per caller: members of its removal list not submitted since
    batch,          \* the queue as it was when the running dispatch cycle began
    arrival,        \* identities in order of submission since the queue was empty
    resorted        \* a removeTransactions has filtered the queue since it was empty

prog == <<mRunning, mNewTxns, mNewTxnsMtx, mempoolCs, poolKey, pc, txn, tmp,
          txnDetails, ret, connected, inv, tasks, mRunFrequency, freq,
          waitBound, cvSignalled>>
hist == <<calls, dtorCalled, shutdownReturned, stops, failed, nSubmitted,
          drained, snapshot, handedTo, cleanRetracted, clean, batch, arrival,
          resorted>>
vars == <<prog, hist>>

locks     == <<mNewTxnsMtx, mempoolCs>>
peerVars  == <<connected, inv, tasks>>
locals    == <<txn, tmp, txnDetails, ret>>
shutHist  == <<dtorCalled, shutdownReturned, stops>>
subHist   == <<nSubmitted, drained>>
retrHist  == <<cleanRetracted, clean>>
cycleHist == <<snapshot, handedTo>>
orderHist == <<batch, arrival, resorted>>
timing    == <<mRunFrequency, freq, waitBound, cvSignalled>>

\* ---------------------------------------------------------------- helpers
Range(s) == {s[i] : i \in DOMAIN s}

Count(s, x) == Cardinality({i \in DOMAIN s : s[i] = x})

\* The removal lists a caller may pass: every order, repeats included
RemovalLists == UNION {[1..n -> Txns] : n \in 1..MaxRemove}

\* CompareTxnSendingDetails comp { &mempool }: pool key, ties by identity
Comp(key, a, b) == key[a] < key[b] \/ (key[a] = key[b] /\ a < b)

RECURSIVE Insert(_, _, _)
Insert(key, s, x) ==
    IF s = <<>> THEN <<x>>
    ELSE IF Comp(key, x, Head(s)) THEN <<x>> \o s
    ELSE <<Head(s)>> \o Insert(key, Tail(s), x)

\* std::sort(first, last, comp)
RECURSIVE Sort(_, _)
Sort(key, s) ==
    IF s = <<>> THEN <<>> ELSE Insert(key, Sort(key, Tail(s)), Head(s))

\* std::set_difference(a.begin(), a.end(), b.begin(), b.end(), out, comp):
\* the merge it performs, whatever the order of its inputs
RECURSIVE SetDifference(_, _, _)
SetDifference(key, a, b) ==
    IF a = <<>> THEN <<>>
    ELSE IF b = <<>> THEN a
    ELSE IF Comp(key, Head(a), Head(b))
         THEN <<Head(a)>> \o SetDifference(key, Tail(a), b)
    ELSE IF Comp(key, Head(b), Head(a))
         THEN SetDifference(key, a, Tail(b))
    ELSE SetDifference(key, Tail(a), Tail(b))

\* (mutant) the lock is not taken: the critical section is entered at once
CanLockUnguarded(holders) == TRUE

\* std::unique_lock / LOCK: a mutex is acquired only when nobody holds it
CanLock(holders) == holders = {}

\* (mutant) the descriptor is inserted at the front
PushFront(q, x) == <<x>> \o q

\* mNewTxns.push_back(txn)
PushBack(q, x) == Append(q, x)

\* (mutant) the queue is not cleared after the fan-out
ClearNothing(q) == q

\* mNewTxns.clear()
Clear(q) == <<>>

\* (mutant) a plain store instead of the compare-and-swap: every caller goes on
CasAlwaysSucceeds(running) == TRUE

\* mRunning.compare_exchange_strong(expected = true, false) succeeds
CasSucceeds(running) == running = TRUE

\* (mutant) the filtering block takes the pool lock first
FilterLockOrderReversed == <<"mempool.cs", "mNewTxnsMtx">>

\* Order in which the filtering block of removeTransactions takes its locks
FilterLockOrder == <<"mNewTxnsMtx", "mempool.cs">>

\* (mutant) the difference is inserted into the queue itself, not into a fresh
\* vector that replaces it
FilterNewTxnsInPlace(key, q, details) ==
    Sort(key, q) \o SetDifference(key, Sort(key, q), details)

\* the filtered queue: sort, set_difference, move-assign
FilterNewTxns(key, q, details) == SetDifference(key, Sort(key, q), details)

\* (mutant) the notification is left out
NotifyNobody(waiting) == FALSE

\* mNewTxnsCV.notify_one(): reaches the thread blocked in wait_for, if there is
\* one; a condition variable keeps no signal for a later wait
NotifyOne(waiting) == waiting

\* (mutant) the exception leaves the scope with the lock still held
UnwindKeepsLock(holders, t) == holders

\* stack unwinding: the destructor of the lock object releases the mutex
Unwind(holders, t) == holders \ {t}

\* (mutant) the locks are released without waiting for the tasks
AllDoneAtOnce(ts) == TRUE

\* for(auto& result : results) result.wait(): every task has completed
AllDone(ts) == ts = {}

\* (mutant) the loop does not look at the flag
LoopForever(running) == TRUE

\* while(mRunning)
LoopCondition(running) == running

Acquire(name, t) ==
    IF name = "mNewTxnsMtx"
    THEN /\ CanLock(mNewTxnsMtx)
         /\ mNewTxnsMtx' = mNewTxnsMtx \cup {t}
         /\ UNCHANGED mempoolCs
    ELSE /\ CanLock(mempoolCs)
         /\ mempoolCs' = mempoolCs \cup {t}
         /\ UNCHANGED mNewTxnsMtx

\* ---------------------------------------------------------------- Init
Init ==
    /\ mRunning = TRUE
    /\ mNewTxns = <<>>
    /\ mNewTxnsMtx = {}
    /\ mempoolCs = {}
    /\ poolKey = [x \in Txns |-> 0]
    /\ pc = [t \in {Sched} \cup Callers |-> IF t = Sched THEN "th_while" ELSE "idle"]
    /\ txn = [t \in Callers |-> 0]
    /\ tmp = [t \in Callers |-> <<>>]
    /\ txnDetails = [t \in Callers |-> <<>>]
    /\ ret = [t \in Callers |-> 0]
    /\ connected = {}
    /\ inv = [p \in Peers |-> {}]
    /\ tasks = {}
    /\ calls = 0
    /\ dtorCalled = FALSE
    /\ shutdownReturned = FALSE
    /\ stops = [flag |-> 0, signal |-> 0, join |-> 0]
    /\ failed = FALSE
    /\ nSubmitted = 0
    /\ drained = FALSE
    /\ snapshot = {}
    /\ handedTo = [p \in Peers |-> <<>>]
    /\ cleanRetracted = {}
    /\ clean = [t \in Callers |-> {}]
    /\ mRunFrequency = 1
    /\ freq = [t \in Callers |-> 0]
    /\ waitBound = 0
    /\ cvSignalled = FALSE
    /\ batch = <<>>
    /\ arrival = <<>>
    /\ resorted = FALSE

\* A caller may start a call while the object lives.  Callers are
\* interchangeable, so a call is started by the lowest idle caller.
CanCall(t) ==
    /\ pc[t] = "idle"
    /\ calls < MaxCalls
    /\ ~dtorCalled
    /\ \A c \in Callers : c < t => pc[c] /= "idle"

Goto(t, l) == pc' = [pc EXCEPT ![t] = l]

\* ------------------------------------------------ newTransaction (53-58)
NewTxnBegin(t, x) ==
    /\ CanCall(t)
    /\ calls' = calls + 1
    /\ txn' = [txn EXCEPT ![t] = x]
    /\ Goto(t, "nt_lock")
    /\ cleanRetracted' = cleanRetracted \ {x}
    /\ clean' = [c \in Callers |-> clean[c] \ {x}]
    /\ UNCHANGED <<timing, mRunning, mNewTxns, locks, poolKey, tmp,
                   txnDetails, ret, peerVars, shutHist, failed, subHist,
                   cycleHist, orderHist>>

\* line 56 takes the lock; push_back (57) first reads the vector ...
NewTxnLock(t) ==
    /\ pc[t] = "nt_lock"
    /\ Acquire("mNewTxnsMtx", t)
    /\ tmp' = [tmp EXCEPT ![t] = mNewTxns]
    /\ Goto(t, "nt_write")
    /\ UNCHANGED <<timing, mRunning, mNewTxns, poolKey, txn, txnDetails, ret,
                   peerVars, hist>>

\* ... and writes it back with the element appended; line 58 releases the lock
NewTxnWrite(t) ==
    /\ pc[t] = "nt_write"
    /\ mNewTxns' = PushBack(tmp[t], txn[t])
    /\ mNewTxnsMtx' = mNewTxnsMtx \ {t}
    /\ tmp' = [tmp EXCEPT ![t] = <<>>]
    /\ txn' = [txn EXCEPT ![t] = 0]
    /\ Goto(t, "idle")
    /\ nSubmitted' = IF drained THEN 0 ELSE nSubmitted + 1
    /\ cleanRetracted' = cleanRetracted \ {txn[t]}
    /\ clean' = [c \in Callers |-> clean[c] \ {txn[t]}]
    /\ arrival' = IF resorted THEN <<>> ELSE Append(arrival, txn[t])
    /\ UNCHANGED <<timing, mRunning, mempoolCs, poolKey, txnDetails, ret,
                   peerVars, calls, shutHist, failed, drained, cycleHist,
                   batch, resorted>>

\* ------------------------------------------ getNewTxnQueueLength (46-50)
LengthBegin(t) ==
    /\ CanCall(t)
    /\ calls' = calls + 1
    /\ Goto(t, "len_lock")
    /\ UNCHANGED <<timing, mRunning, mNewTxns, locks, poolKey, locals,
                   peerVars, shutHist, failed, subHist, cycleHist, retrHist,
                   orderHist>>

\* lines 48-49: lock, read the size, unlock
LengthRead(t) ==
    /\ pc[t] = "len_lock"
    /\ CanLock(mNewTxnsMtx)
    /\ ret' = [ret EXCEPT ![t] = Len(mNewTxns)]
    /\ Goto(t, "len_ret")
    /\ UNCHANGED <<timing, mRunning, mNewTxns, locks, poolKey, txn, tmp,
                   txnDetails, peerVars, hist>>

LengthReturn(t) ==
    /\ pc[t] = "len_ret"
    /\ ret' = [ret EXCEPT ![t] = 0]
    /\ Goto(t, "idle")
    /\ UNCHANGED <<timing, mRunning, mNewTxns, locks, poolKey, txn, tmp,
                   txnDetails, peerVars, hist>>

\* ---------------------------------------------- getRunFrequency (29-33)
GetFreqBegin(t) ==
    /\ CanCall(t)
    /\ calls' = calls + 1
    /\ Goto(t, "gf_lock")
    /\ UNCHANGED <<timing, mRunning, mNewTxns, locks, poolKey, locals,
                   peerVars, shutHist, failed, subHist, cycleHist, retrHist,
                   orderHist>>

\* lines 31-32: lock, read the frequency, unlock
GetFreqRead(t) ==
    /\ pc[t] = "gf_lock"
    /\ CanLock(mNewTxnsMtx)
    /\ ret' = [ret EXCEPT ![t] = mRunFrequency]
    /\ Goto(t, "gf_ret")
    /\ UNCHANGED <<timing, mRunning, mNewTxns, locks, poolKey, txn, tmp,
                   txnDetails, peerVars, hist>>

GetFreqReturn(t) ==
    /\ pc[t] = "gf_ret"
    /\ ret' = [ret EXCEPT ![t] = 0]
    /\ Goto(t, "idle")
    /\ UNCHANGED <<timing, mRunning, mNewTxns, locks, poolKey, txn, tmp,
                   txnDetails, peerVars, hist>>

\* ---------------------------------------------- setRunFrequency (36-43)
SetFreqBegin(t, f) ==
    /\ CanCall(t)
    /\ calls' = calls + 1
    /\ freq' = [freq EXCEPT ![t] = f]
    /\ Goto(t, "sf_lock")
    /\ UNCHANGED <<mRunFrequency, waitBound, cvSignalled, mRunning, mNewTxns,
                   locks, poolKey, locals, peerVars, shutHist, failed, subHist,
                   cycleHist, retrHist, orderHist>>

\* lines 38-43: lock, store the frequency, notify_one, unlock
SetFreqWrite(t) ==
    /\ pc[t] = "sf_lock"
    /\ CanLock(mNewTxnsMtx)
    /\ mRunFrequency' = freq[t]
    /\ cvSignalled' = (cvSignalled \/ NotifyOne(pc[Sched] = "th_blocked"))
    /\ freq' = [freq EXCEPT ![t] = 0]
    /\ Goto(t, "idle")
    /\ UNCHANGED <<waitBound, mRunning, mNewTxns, locks, poolKey, locals,
                   peerVars, hist>>

\* --------------------------------------------- removeTransactions (61-103)
\* lines 67-74: txnDetails is built in the order of the argument
RemoveBegin(t, S) ==
    /\ CanCall(t)
    /\ calls' = calls + 1
    /\ txnDetails' = [txnDetails EXCEPT ![t] = S]
    /\ Goto(t, "rm_sortlock")
    /\ drained' = TRUE
    /\ nSubmitted' = 0
    /\ clean' = [clean EXCEPT ![t] = Range(S) \ {txn[c] : c \in Callers}]
    /\ UNCHANGED <<timing, mRunning, mNewTxns, locks, poolKey, txn, tmp, ret,
                   peerVars, shutHist, failed, cycleHist, cleanRetracted,
                   orderHist>>

\* lines 75-78: take the pool lock, sort txnDetails, release the pool lock
RemoveSort(t) ==
    /\ pc[t] = "rm_sortlock"
    /\ CanLock(mempoolCs)
    /\ txnDetails' = [txnDetails EXCEPT ![t] = Sort(poolKey, txnDetails[t])]
    /\ Goto(t, "rm_lock_a")
    /\ UNCHANGED <<timing, mRunning, mNewTxns, locks, poolKey, txn, tmp, ret,
                   peerVars, hist>>

\* line 85: the first lock of the filtering block
RemoveLockA(t) ==
    /\ pc[t] = "rm_lock_a"
    /\ Acquire(FilterLockOrder[1], t)
    /\ Goto(t, "rm_lock_b")
    /\ UNCHANGED <<timing, mRunning, mNewTxns, poolKey, locals, peerVars,
                   hist>>

\* lines 86-92: the second lock; sort the queue, set_difference, move-assign;
\* the closing brace releases both locks
RemoveFilter(t) ==
    /\ pc[t] = "rm_lock_b"
    /\ CanLock(IF FilterLockOrder[2] = "mNewTxnsMtx" THEN mNewTxnsMtx ELSE mempoolCs)
    /\ mNewTxns' = FilterNewTxns(poolKey, mNewTxns, txnDetails[t])
    /\ mNewTxnsMtx' = mNewTxnsMtx \ {t}
    /\ mempoolCs' = mempoolCs \ {t}
    /\ Goto(t, "rm_fanlock")
    /\ cleanRetracted' = cleanRetracted \cup
           {x \in clean[t] : Count(mNewTxns, x) = 1}
    /\ arrival' = <<>>
    /\ resorted' = (mNewTxns' /= <<>>)
    /\ UNCHANGED <<timing, mRunning, poolKey, locals, peerVars, calls,
                   shutHist, failed, subHist, cycleHist, clean, batch>>

\* lines 96-97: take the pool lock, start one task per connected peer
RemoveFanOut(t) ==
    /\ pc[t] = "rm_fanlock"
    /\ Acquire("mempool.cs", t)
    /\ tasks' = connected
    /\ Goto(t, "rm_wait")
    /\ UNCHANGED <<timing, mRunning, mNewTxns, poolKey, locals, connected,
                   inv, hist>>

\* the task of peer p: node->RemoveTxnsFromInventory(txnDetails)
PeerRemoveTask(p, t) ==
    /\ pc[t] = "rm_wait"
    /\ p \in tasks
    /\ tasks' = tasks \ {p}
    /\ inv' = [inv EXCEPT ![p] = inv[p] \ Range(txnDetails[t])]
    /\ UNCHANGED <<timing, mRunning, mNewTxns, locks, poolKey, pc, locals,
                   connected, hist>>

\* lines 100-103: every result.wait() has returned; release the pool lock
RemoveWait(t) ==
    /\ pc[t] = "rm_wait"
    /\ AllDone(tasks)
    /\ mempoolCs' = mempoolCs \ {t}
    /\ txnDetails' = [txnDetails EXCEPT ![t] = <<>>]
    /\ Goto(t, "idle")
    /\ clean' = [clean EXCEPT ![t] = {}]
    /\ UNCHANGED <<timing, mRunning, mNewTxns, mNewTxnsMtx, poolKey, txn, tmp,
                   ret, peerVars, calls, shutHist, failed, subHist, cycleHist,
                   cleanRetracted, orderHist>>

\* ----------------------------------------------------- shutdown (106-120)
ShutdownBegin(t) ==
    /\ CanCall(t)
    /\ calls' = calls + 1
    /\ Goto(t, "sd_cas")
    /\ UNCHANGED <<timing, mRunning, mNewTxns, locks, poolKey, locals,
                   peerVars, shutHist, failed, subHist, cycleHist, retrHist,
                   orderHist>>

\* ~CTxnPropagator (23-26) calls shutdown(); no call starts on the object after
DtorBegin(t) ==
    /\ CanCall(t)
    /\ calls' = calls + 1
    /\ dtorCalled' = TRUE
    /\ Goto(t, "sd_cas")
    /\ UNCHANGED <<timing, mRunning, mNewTxns, locks, poolKey, locals,
                   peerVars, shutdownReturned, stops, failed, subHist,
                   cycleHist, retrHist, orderHist>>

\* lines 109-110: the compare-and-swap; the loser returns at once (line 120)
ShutdownCas(t) ==
    /\ pc[t] = "sd_cas"
    /\ IF CasSucceeds(mRunning)
       THEN /\ mRunning' = FALSE
            /\ stops' = [stops EXCEPT !.flag = @ + (IF mRunning THEN 1 ELSE 0)]
            /\ Goto(t, "sd_lock")
            /\ UNCHANGED shutdownReturned
       ELSE /\ Goto(t, "idle")
            /\ shutdownReturned' = TRUE
            /\ UNCHANGED <<mRunning, stops>>
    /\ UNCHANGED <<timing, mNewTxns, locks, poolKey, locals, peerVars, calls,
                   dtorCalled, failed, subHist, cycleHist, retrHist,
                   orderHist>>

\* lines 113-116: lock, notify_one, unlock
ShutdownNotify(t) ==
    /\ pc[t] = "sd_lock"
    /\ CanLock(mNewTxnsMtx)
    /\ stops' = [stops EXCEPT !.signal = @ + 1]
    /\ cvSignalled' = (cvSignalled \/ NotifyOne(pc[Sched] = "th_blocked"))
    /\ Goto(t, "sd_join")
    /\ UNCHANGED <<mRunFrequency, freq, waitBound, mRunning, mNewTxns, locks, poolKey, locals,
                   peerVars, calls, dtorCalled, shutdownReturned, failed,
                   subHist, cycleHist, retrHist, orderHist>>

\* line 118: join() returns once the thread function has returned
ShutdownJoin(t) ==
    /\ pc[t] = "sd_join"
    /\ pc[Sched] = "exited"
    /\ stops' = [stops EXCEPT !.join = @ + 1]
    /\ shutdownReturned' = TRUE
    /\ Goto(t, "idle")
    /\ UNCHANGED <<timing, mRunning, mNewTxns, locks, poolKey, locals,
                   peerVars, calls, dtorCalled, failed, subHist, cycleHist,
                   retrHist, orderHist>>

\* ------------------------------------------ threadNewTxnHandler (123-148)
\* line 129: while(mRunning)
ThreadWhile ==
    /\ pc[Sched] = "th_while"
    /\ Goto(Sched, IF LoopCondition(mRunning) THEN "th_lock" ELSE "exited")
    /\ UNCHANGED <<timing, mRunning, mNewTxns, locks, poolKey, locals,
                   peerVars, hist>>

\* lines 132-133: take the lock; wait_for(lock, mRunFrequency) releases it and
\* blocks for at most the frequency it was given
ThreadWait ==
    /\ pc[Sched] = "th_lock"
    /\ CanLock(mNewTxnsMtx)
    /\ waitBound' = mRunFrequency
    /\ cvSignalled' = FALSE
    /\ Goto(Sched, "th_blocked")
    /\ UNCHANGED <<mRunFrequency, freq, mRunning, mNewTxns, locks, poolKey, locals,
                   peerVars, hist>>

\* lines 133-140: woken (timeout, notify or spuriously), wait_for re-takes the
\* lock; if(mRunning && !mNewTxns.empty()) goes on to processNewTransactions
\* with the lock held, else the lock goes out of scope
ThreadWake ==
    /\ pc[Sched] = "th_blocked"
    /\ CanLock(mNewTxnsMtx)
    /\ IF mRunning /\ mNewTxns /= <<>>
       THEN /\ Goto(Sched, "pn_lock")
            /\ mNewTxnsMtx' = mNewTxnsMtx \cup {Sched}
            /\ drained' = TRUE
            /\ nSubmitted' = 0
            /\ batch' = mNewTxns
       ELSE /\ Goto(Sched, "th_while")
            /\ UNCHANGED <<mNewTxnsMtx, drained, nSubmitted, batch>>
    /\ waitBound' = 0
    /\ cvSignalled' = FALSE
    /\ UNCHANGED <<mRunFrequency, freq, mRunning, mNewTxns, mempoolCs, poolKey,
                   locals, peerVars, calls, shutHist, failed, cycleHist,
                   retrHist, arrival, resorted>>

\* the wake-up a notify_one causes
ThreadWakeNotified == cvSignalled /\ ThreadWake

\* the wake-up the expiry of the duration given to wait_for causes
ThreadWakeTimeout == ~cvSignalled /\ ThreadWake

\* --------------------------------------- processNewTransactions (154-168)
\* lines 158-159: take the pool lock, start one task per connected peer
ProcessFanOut ==
    /\ pc[Sched] = "pn_lock"
    /\ Acquire("mempool.cs", Sched)
    /\ tasks' = connected
    /\ snapshot' = connected
    /\ Goto(Sched, "pn_wait")
    /\ UNCHANGED <<timing, mRunning, mNewTxns, poolKey, locals, connected,
                   inv, calls, shutHist, failed, subHist, handedTo, retrHist,
                   orderHist>>

\* line 159 throws: both locks unwind, catch(...) (144-147) ends the thread
ProcessThrows ==
    /\ pc[Sched] = "pn_lock"
    /\ CanLock(mempoolCs)
    /\ mNewTxnsMtx' = Unwind(mNewTxnsMtx, Sched)
    /\ failed' = TRUE
    /\ batch' = <<>>
    /\ Goto(Sched, "exited")
    /\ UNCHANGED <<timing, mRunning, mNewTxns, mempoolCs, poolKey, locals,
                   peerVars, calls, shutHist, subHist, cycleHist, retrHist,
                   arrival, resorted>>

\* the task of peer p: node->AddTxnsToInventory(mNewTxns)
PeerAddTask(p) ==
    /\ pc[Sched] = "pn_wait"
    /\ p \in tasks
    /\ tasks' = tasks \ {p}
    /\ inv' = [inv EXCEPT ![p] = inv[p] \cup Range(mNewTxns)]
    /\ handedTo' = [handedTo EXCEPT ![p] = Append(@, mNewTxns)]
    /\ UNCHANGED <<timing, mRunning, mNewTxns, locks, poolKey, pc, locals,
                   connected, calls, shutHist, failed, subHist, snapshot,
                   retrHist, orderHist>>

\* lines 162-168: every result.wait() has returned; the pool lock is released,
\* the queue is cleared, and the end of the loop body (140) releases mNewTxnsMtx
ProcessClear ==
    /\ pc[Sched] = "pn_wait"
    /\ AllDone(tasks)
    /\ mempoolCs' = mempoolCs \ {Sched}
    /\ mNewTxns' = Clear(mNewTxns)
    /\ mNewTxnsMtx' = mNewTxnsMtx \ {Sched}
    /\ handedTo' = [p \in Peers |-> SelectSeq(handedTo[p],
                       LAMBDA b : Range(b) \cap Range(mNewTxns') /= {})]
    /\ snapshot' = {}
    /\ batch' = <<>>
    /\ arrival' = <<>>
    /\ resorted' = FALSE
    /\ Goto(Sched, "th_while")
    /\ UNCHANGED <<timing, mRunning, poolKey, locals, peerVars, calls,
                   shutHist, failed, subHist, retrHist>>

\* ------------------------------------------------------------ environment
\* The connection manager gains or loses a peer.  The engine looks at the peer
\* set only when a fan-out enumerates it, so the changes are taken right there.
AtFanOut == \E t \in {Sched} \cup Callers : pc[t] \in {"pn_lock", "rm_fanlock"}

PeerConnect(p) ==
    /\ AtFanOut
    /\ p \notin connected
    /\ connected' = connected \cup {p}
    /\ inv' = [inv EXCEPT ![p] = {}]
    /\ UNCHANGED <<timing, mRunning, mNewTxns, locks, poolKey, pc, locals,
                   tasks, hist>>

PeerDisconnect(p) ==
    /\ AtFanOut
    /\ p \in connected
    /\ p \notin tasks
    /\ connected' = connected \ {p}
    /\ inv' = [inv EXCEPT ![p] = {}]
    /\ UNCHANGED <<timing, mRunning, mNewTxns, locks, poolKey, pc, locals,
                   tasks, hist>>

\* Another subsystem changes the pool, under the pool's lock.  The engine reads
\* the pool's order only in its two sorts, so the changes are taken while a
\* removeTransactions is on its way to one of them.
BeforeSort == \E t \in Callers : pc[t] \in {"rm_sortlock", "rm_lock_a", "rm_lock_b"}

PoolMutate(x, k) ==
    /\ BeforeSort
    /\ mempoolCs = {}
    /\ k /= poolKey[x]
    /\ poolKey' = [poolKey EXCEPT ![x] = k]
    /\ UNCHANGED <<timing, mRunning, mNewTxns, locks, pc, locals, peerVars,
                   hist>>

Next ==
    \/ \E t \in Callers, x \in Txns : NewTxnBegin(t, x)
    \/ \E t \in Callers : NewTxnLock(t)
    \/ \E t \in Callers : NewTxnWrite(t)
    \/ \E t \in Callers : LengthBegin(t)
    \/ \E t \in Callers : LengthRead(t)
    \/ \E t \in Callers : LengthReturn(t)
    \/ \E t \in Callers, S \in RemovalLists : RemoveBegin(t, S)
    \/ \E t \in Callers : RemoveSort(t)
    \/ \E t \in Callers : RemoveLockA(t)
    \/ \E t \in Callers : RemoveFilter(t)
    \/ \E t \in Callers : RemoveFanOut(t)
    \/ \E t \in Callers, p \in Peers : PeerRemoveTask(p, t)
    \/ \E t \in Callers : RemoveWait(t)
    \/ \E t \in Callers : ShutdownBegin(t)
    \/ \E t \in Callers : DtorBegin(t)
    \/ \E t \in Callers : ShutdownCas(t)
    \/ \E t \in Callers : ShutdownNotify(t)
    \/ \E t \in Callers : ShutdownJoin(t)
    \/ ThreadWhile
    \/ ThreadWait
    \/ ThreadWake
    \/ ProcessFanOut
    \/ ProcessThrows
    \/ \E p \in Peers : PeerAddTask(p)
    \/ ProcessClear
    \/ \E p \in Peers : PeerConnect(p)
    \/ \E p \in Peers : PeerDisconnect(p)
    \/ \E x \in Txns, k \in 0..MaxKey : PoolMutate(x, k)

Spec == Init /\ [][Next]_vars

\* ------------------------------------------------- the control-flow model
\* Which thread waits for which lock, signal or join does not depend on which
\* identities are queued, only on whether the queue is empty.  The second
\* specification therefore submits and removes one identity and leaves the
\* pool's order alone, and adds the two frequency calls.
CtlNext ==
    \/ \E t \in Callers : NewTxnBegin(t, 1)
    \/ \E t \in Callers : NewTxnLock(t)
    \/ \E t \in Callers : NewTxnWrite(t)
    \/ \E t \in Callers : LengthBegin(t)
    \/ \E t \in Callers : LengthRead(t)
    \/ \E t \in Callers : LengthReturn(t)
    \/ \E t \in Callers : GetFreqBegin(t)
    \/ \E t \in Callers : GetFreqRead(t)
    \/ \E t \in Callers : GetFreqReturn(t)
    \/ \E t \in Callers, f \in Freqs : SetFreqBegin(t, f)
    \/ \E t \in Callers : SetFreqWrite(t)
    \/ \E t \in Callers : RemoveBegin(t, <<1>>)
    \/ \E t \in Callers : RemoveSort(t)
    \/ \E t \in Callers : RemoveLockA(t)
    \/ \E t \in Callers : RemoveFilter(t)
    \/ \E t \in Callers : RemoveFanOut(t)
    \/ \E t \in Callers, p \in Peers : PeerRemoveTask(p, t)
    \/ \E t \in Callers : RemoveWait(t)
    \/ \E t \in Callers : ShutdownBegin(t)
    \/ \E t \in Callers : DtorBegin(t)
    \/ \E t \in Callers : ShutdownCas(t)
    \/ \E t \in Callers : ShutdownNotify(t)
    \/ \E t \in Callers : ShutdownJoin(t)
    \/ ThreadWhile
    \/ ThreadWait
    \/ ThreadWake
    \/ ProcessFanOut
    \/ ProcessThrows
    \/ \E p \in Peers : PeerAddTask(p)
    \/ ProcessClear
    \/ \E p \in Peers : PeerConnect(p)
    \/ \E p \in Peers : PeerDisconnect(p)

CtlSpec == Init /\ [][CtlNext]_vars

\* The steps of a call in progress, of the background thread, of a peer's task
CallerStep(t) ==
    \/ NewTxnLock(t) \/ NewTxnWrite(t)
    \/ LengthRead(t) \/ LengthReturn(t)
    \/ GetFreqRead(t) \/ GetFreqReturn(t)
    \/ SetFreqWrite(t)
    \/ RemoveSort(t) \/ RemoveLockA(t) \/ RemoveFilter(t) \/ RemoveFanOut(t)
    \/ RemoveWait(t)
    \/ ShutdownCas(t) \/ ShutdownNotify(t) \/ ShutdownJoin(t)

SchedStep ==
    ThreadWhile \/ ThreadWait \/ ThreadWake \/ ProcessFanOut \/ ProcessClear

TaskStep(p) == PeerAddTask(p) \/ \E t \in Callers : PeerRemoveTask(p, t)

\* Every thread that can take a step eventually takes one; a wait_for that has
\* not been notified eventually times out (ThreadWake); every task completes.
Fairness ==
    /\ \A t \in Callers : WF_vars(CallerStep(t))
    /\ WF_vars(SchedStep)
    /\ \A p \in Peers : WF_vars(TaskStep(p))

LiveSpec == CtlSpec /\ Fairness

TypeOK ==
    /\ mRunning \in BOOLEAN
    /\ Len(mNewTxns) <= MaxCalls
    /\ mNewTxnsMtx \subseteq {Sched} \cup Callers
    /\ mempoolCs \subseteq {Sched} \cup Callers
    /\ connected \subseteq Peers
    /\ tasks \subseteq Peers
    /\ mRunFrequency \in Freqs
    /\ waitBound \in {0} \cup Freqs
    /\ cvSignalled \in BOOLEAN
    /\ resorted \in BOOLEAN


\* ================================================================ claims
NoDup(q) == \A x \in Txns : Count(q, x) <= 1

BagOf(q) == [x \in Txns |-> Count(q, x)]

Without(q, S) == SelectSeq(q, LAMBDA x : x \notin S)

FilterStep(t) == pc[t] = "rm_lock_b" /\ pc'[t] = "rm_fanlock"

LengthStep(t) == pc[t] = "len_lock" /\ pc'[t] = "len_ret"

\* C1: no shutdown() call, the loser of the compare-and-swap included, has
\* returned while the background thread has not yet exited.
C1_ShutdownReturnsAfterExit == shutdownReturned => pc[Sched] = "exited"

\* C2: over all shutdown() calls the stop sequence runs exactly once: mRunning
\* goes from true to false once and stays false, and there is at most one
\* signal and one join, made by the call that changed the flag.
C2_StopSequenceOnce ==
    /\ stops.flag <= 1
    /\ mRunning = (stops.flag = 0)
    /\ stops.signal <= stops.flag
    /\ stops.join <= stops.signal

\* a second shutdown() is about to run its compare-and-swap after the stop
\* sequence has completed
C2_Witness ==
    /\ stops.join = 1
    /\ \E t \in Callers : pc[t] = "sd_cas"

RequestsQueueLock(t) ==
    IF t = Sched THEN pc[t] \in {"th_lock", "th_blocked"}
    ELSE \/ pc[t] \in {"nt_lock", "len_lock", "sd_lock", "gf_lock", "sf_lock"}
         \/ pc[t] = "rm_lock_a" /\ FilterLockOrder[1] = "mNewTxnsMtx"
         \/ pc[t] = "rm_lock_b" /\ FilterLockOrder[2] = "mNewTxnsMtx"

\* C3: no thread of the engine requests mNewTxnsMtx while it holds mempool.cs.
C3_QueueLockBeforePoolLock ==
    \A t \in {Sched} \cup Callers : RequestsQueueLock(t) => t \notin mempoolCs

\* the dispatch cycle holds both locks while a removeTransactions that holds
\* neither waits for the queue lock
C3_Witness ==
    /\ Sched \in mNewTxnsMtx \cap mempoolCs
    /\ \E t \in Callers : pc[t] = "rm_lock_a"

\* C4: the filtering step of removeTransactions leaves exactly the descriptors
\* of the queue whose identity is not in the removal list, every copy of a
\* listed identity removed.
C4_RetractRemovesExactlyListed ==
    [][\A t \in Callers : FilterStep(t) =>
          BagOf(mNewTxns') = BagOf(Without(mNewTxns, Range(txnDetails[t])))]_vars

\* C5: the filtering step shortens the queue by the number of pending
\* descriptors whose identity is listed, leaves the pending descriptors as they
\* are when none is listed, and getNewTxnQueueLength returns the queue's length.
C5_RetractThenLength ==
    [][\A t \in Callers :
          /\ FilterStep(t) =>
               /\ Len(mNewTxns') = Len(mNewTxns) -
                      Cardinality({i \in DOMAIN mNewTxns :
                                      mNewTxns[i] \in Range(txnDetails[t])})
               /\ (Range(mNewTxns) \cap Range(txnDetails[t]) = {}
                      => BagOf(mNewTxns') = BagOf(mNewTxns))
          /\ LengthStep(t) => ret'[t] = Len(mNewTxns)]_vars

\* C6 as claimed: the queue never holds two descriptors of one identity.
C6_NoDuplicateIdentity == NoDup(mNewTxns)

ResubmitStep ==
    \E t \in Callers : /\ pc[t] = "nt_write" /\ pc'[t] = "idle"
                       /\ txn[t] \in Range(mNewTxns)

\* C6 as amended: the queue holds no two descriptors of one identity unless a
\* newTransaction adds an identity that is already pending; no other step of
\* the engine makes a duplicate.
C6_NoDuplicateUnlessResubmitted ==
    [][(NoDup(mNewTxns) /\ ~ResubmitStep) => NoDup(mNewTxns')]_vars

\* a removeTransactions has filtered a queue of distinct identities and has
\* left part of it
C6_Witness ==
    /\ \E t \in Callers : pc[t] = "rm_fanlock"
    /\ mNewTxns /= <<>>
    /\ NoDup(mNewTxns)
    /\ cleanRetracted /= {}

\* C7: before any dispatch cycle or removeTransactions, with distinct
\* identities submitted, getNewTxnQueueLength returns the number of
\* newTransaction calls that have completed.
C7_LengthCountsSubmissions ==
    [][\A t \in Callers :
          (LengthStep(t) /\ ~drained /\ NoDup(mNewTxns))
              => ret'[t] = nSubmitted]_vars

\* two submissions of distinct identities were counted by a Length call
C7_Witness ==
    /\ ~drained
    /\ nSubmitted = 2
    /\ NoDup(mNewTxns)
    /\ \E t \in Callers : pc[t] = "len_ret" /\ ret[t] = 2

ClearStep == pc[Sched] = "pn_wait" /\ pc'[Sched] = "th_while"

\* C8: when a dispatch cycle completes, every peer of the snapshot was handed
\* the whole queue exactly once and no other peer was handed anything, the
\* queue is empty afterwards, and no peer is ever handed pending descriptors
\* it was handed before.
C8_DispatchOncePerPeer ==
    [][/\ ClearStep =>
            /\ \A p \in Peers :
                  handedTo[p] = IF p \in snapshot THEN <<mNewTxns>> ELSE <<>>
            /\ mNewTxns' = <<>>
       /\ \A p \in Peers : Len(handedTo'[p]) <= 1]_vars

\* the fan-out to two peers of a batch of two descriptors has completed
C8_Witness ==
    /\ pc[Sched] = "pn_wait"
    /\ tasks = {}
    /\ Cardinality(snapshot) = 2
    /\ Len(mNewTxns) = 2
    /\ \A p \in snapshot : handedTo[p] = <<mNewTxns>>

\* C9: a descriptor that was pending once and was retracted before any
\* dispatch, and has not been submitted since, is in no batch handed to a peer.
C9_RetractedNeverDispatched ==
    \A p \in Peers : \A i \in DOMAIN handedTo[p] :
        Range(handedTo[p][i]) \cap cleanRetracted = {}

\* C10: when removeTransactions(S) returns, with no member of S submitted
\* since it was called, no member of S is pending (so no later dispatch cycle
\* holds one) and no connected peer's inventory holds one.
C10_RetractCompletes ==
    \A t \in Callers : (pc[t] = "rm_wait" /\ tasks = {}) =>
        \A x \in clean[t] :
            /\ x \notin Range(mNewTxns)
            /\ \A p \in connected : x \notin inv[p]

SetFreqStep(t) == pc[t] = "sf_lock" /\ pc'[t] = "idle"

\* C11: a setRunFrequency that runs while the background thread is blocked in
\* wait_for notifies it, and a wait_for that has not been notified is bounded
\* by the current frequency: no wait goes on under a frequency that has been
\* replaced, and every wait begun after the call is given the new one.
C11_FrequencyChangeWakes ==
    /\ [][\A t \in Callers :
             (SetFreqStep(t) /\ pc[Sched] = "th_blocked") => cvSignalled']_vars
    /\ []((pc[Sched] = "th_blocked" /\ ~cvSignalled)
             => waitBound = mRunFrequency)

\* the thread is blocked in a wait that was given the old frequency and has
\* been notified by the call that stored the new one
C11_Witness ==
    /\ pc[Sched] = "th_blocked"
    /\ mRunning
    /\ cvSignalled
    /\ waitBound /= mRunFrequency

CycleStartStep == pc[Sched] = "th_blocked" /\ pc'[Sched] = "pn_lock"

AddPendingStep == pc[Sched] = "pn_wait" /\ tasks' /= tasks

\* What holds of a stopped engine: once mRunning is false no dispatch cycle
\* starts, a wake-up that finds it false leaves the loop with the queue as it
\* is, and no task runs after the shutdown() that changed the flag has returned.
StoppedNeverDispatches ==
    [][/\ ~mRunning => ~CycleStartStep
       /\ (~mRunning /\ pc[Sched] = "th_blocked" /\ pc'[Sched] /= "th_blocked")
             => (pc'[Sched] = "th_while" /\ mNewTxns' = mNewTxns)
       /\ (~mRunning /\ pc[Sched] = "th_while" /\ pc'[Sched] /= "th_while")
             => pc'[Sched] = "exited"
       /\ stops.join = 1 => ~AddPendingStep]_vars

\* C12: once shutdown() has set mRunning to false no dispatch cycle starts, a
\* wake-up that follows leaves the loop without a fan-out whatever the queue
\* holds, and no peer's task runs after a shutdown() call has returned.
C12_NoDispatchAfterStop ==
    [][/\ ~mRunning => ~CycleStartStep
       /\ (~mRunning /\ pc[Sched] = "th_blocked" /\ pc'[Sched] /= "th_blocked")
             => (pc'[Sched] = "th_while" /\ mNewTxns' = mNewTxns)
       /\ shutdownReturned => ~AddPendingStep]_vars

\* C13: when the fan-out of a dispatch cycle throws, the background thread
\* ends holding neither lock, no dispatch cycle starts afterwards, and every
\* call in progress or made afterwards (newTransaction, removeTransactions,
\* getNewTxnQueueLength, get/setRunFrequency, shutdown) returns.
C13_FailureContained ==
    /\ [](failed => /\ pc[Sched] = "exited"
                    /\ Sched \notin mNewTxnsMtx \cup mempoolCs)
    /\ [][failed => ~CycleStartStep]_vars
    /\ \A t \in Callers : (failed /\ pc[t] /= "idle") ~> (pc[t] = "idle")

\* after a failed cycle the batch is still queued and a shutdown() has joined
C13_Witness ==
    /\ failed
    /\ mNewTxns /= <<>>
    /\ stops.join = 1

InFanOut(t) == pc[t] \in {"pn_wait", "rm_wait"}

\* C14: in both fan-outs the thread that started the tasks holds mempool.cs,
\* alone, from the start of the tasks until the last one has completed: no
\* task is outstanding while that thread has left the fan-out or the lock.
C14_PoolLockHeldDuringTasks ==
    /\ \A t \in {Sched} \cup Callers : InFanOut(t) => mempoolCs = {t}
    /\ tasks /= {} => \E t \in {Sched} \cup Callers : InFanOut(t)

\* the fan-out of a removeTransactions over two peers: one task has completed,
\* the other is still running
C14_Witness ==
    /\ \E t \in Callers : pc[t] = "rm_wait" /\ t \in mempoolCs
    /\ Cardinality(connected) = 2
    /\ Cardinality(tasks) = 1

SortedNotYetFiltered(t) == pc[t] \in {"rm_lock_a", "rm_lock_b"}

\* C15: from the sort of the removal list to the set_difference that consumes
\* it, removeTransactions holds mempool.cs without a break, and the list is in
\* the order the pool gives it at that time.
C15_SortAndFilterUnderOneLock ==
    \A t \in Callers : SortedNotYetFiltered(t) =>
        /\ t \in mempoolCs
        /\ txnDetails[t] = Sort(poolKey, txnDetails[t])

\* C16: once the shutdown() that changed the flag has called notify_one, the
\* background thread is in no wait_for that has not been notified, that is, in
\* none that only the expiry of its duration ends.
C16_ShutdownSignalNotLost ==
    (stops.signal = 1 /\ pc[Sched] = "th_blocked") => cvSignalled

\* C17: when every thread that can step does, every wait_for times out and
\* every task completes, the shutdown() that changed the flag returns: the
\* background thread has exited and has been joined.
C17_ShutdownTerminates ==
    (stops.flag = 1) ~> (stops.join = 1 /\ pc[Sched] = "exited" /\ ~mRunning)

\* shutdown() has changed the flag in the middle of a dispatch cycle: it waits
\* for the queue lock while a task of the fan-out is still running
C17_Witness ==
    /\ \E t \in Callers : pc[t] = "sd_lock"
    /\ pc[Sched] = "pn_wait"
    /\ tasks /= {}

\* C18: in a dispatch cycle every peer of the snapshot whose task has run was
\* handed one and the same batch, the queue as it was when the cycle began,
\* which is the queue still; if no removeTransactions has filtered the queue
\* since it was last empty, the batch is in the order of submission.
C18_SameBatchInOrder ==
    pc[Sched] = "pn_wait" =>
        /\ batch = mNewTxns
        /\ \A p \in snapshot \ tasks : handedTo[p] = <<batch>>
        /\ ~resorted => batch = arrival

\* two peers were handed the batch <<2, 1>>: identity 2 was submitted first,
\* and no removeTransactions has sorted the queue
C18_Witness ==
    /\ pc[Sched] = "pn_wait"
    /\ tasks = {}
    /\ Cardinality(snapshot) = 2
    /\ ~resorted
    /\ batch = <<2, 1>>
    /\ \A p \in snapshot : handedTo[p] = <<batch>>

InCycle == pc[Sched] \in {"pn_lock", "pn_wait"}

\* C19: the background thread holds mNewTxnsMtx, alone, from the wake-up that
\* starts a dispatch cycle to the clear; no newTransaction or
\* removeTransactions changes the queue in between; and what the clear removes
\* is the batch of the cycle, which every peer of the snapshot was handed.
C19_ClearDropsOnlyTheBatch ==
    /\ [](InCycle => mNewTxnsMtx = {Sched})
    /\ [][(InCycle /\ ~ClearStep) => mNewTxns' = mNewTxns]_vars
    /\ [][ClearStep => /\ mNewTxns = batch
                       /\ \A p \in snapshot : handedTo[p] = <<mNewTxns>>]_vars

\* a newTransaction and a removeTransactions both wait for the queue lock
\* while the fan-out of a dispatch cycle is under way
C19_Witness ==
    /\ pc[Sched] = "pn_wait"
    /\ snapshot /= {}
    /\ \E t, u \in Callers : pc[t] = "nt_lock" /\ pc[u] = "rm_lock_a"

\* C20: no thread waits for ever for mNewTxnsMtx, for mempool.cs or in join():
\* every call that has begun returns, and the background thread always gets
\* from a lock it asks for back to the test of its loop or to its end.
C20_NoThreadWaitsForever ==
    /\ \A t \in Callers : (pc[t] /= "idle") ~> (pc[t] = "idle")
    /\ (pc[Sched] \in {"th_lock", "th_blocked", "pn_lock", "pn_wait"})
           ~> (pc[Sched] \in {"th_while", "exited"})

\* a chain of waiting threads: shutdown() waits for the queue lock, which the
\* background thread holds while it waits for the pool lock, which a
\* removeTransactions holds while it waits for a task
C20_Witness ==
    /\ pc[Sched] = "pn_lock"
    /\ \E t, u \in Callers : pc[t] = "rm_wait" /\ pc[u] = "sd_lock"
    /\ tasks /= {}

====
